---- MODULE Spec2Model ----
(***************************************************************************)
(* Newsgrabber (src/main.py): Hacker News posts are fetched, their text is *)
(* extracted, summarized through a chat-completion service (oversized text *)
(* is chunked and summarized in two stages), and the summaries are         *)
(* concatenated into a podcast script.                                     *)
(*                                                                         *)
(* A text is a sequence of atoms.  Text that comes from posts, pages and   *)
(* comments is a sequence of one-character strings, so Len is Python's     *)
(* len; a string literal of the program is a single atom.                  *)
(***************************************************************************)
EXTENDS Integers, Sequences, FiniteSets, TLC

\* ------------------------------------------------------------------ bounds
MaxLen == 5
MaxThreshold == 3
\* stands for the literal 12000 of map_title_summary, scaled down
ChunkThreshold == 12

\* --------------------------------------------------------------- constants
max_retries == 5
num_posts == 2

\* Python's None for strings (titles, urls) and for texts.
None == "$None$"
NoneText == <<None>>

\* --------------------------------------------------------- text primitives
Rep(c, n) == [k \in 1..n |-> c]

IsSpace(c) == c = " "

RECURSIVE SplitLoop(_, _, _)
SplitLoop(text, cur, acc) ==
  IF text = <<>>
    THEN IF cur = <<>> THEN acc ELSE Append(acc, cur)
    ELSE IF IsSpace(Head(text))
      THEN SplitLoop(Tail(text), <<>>, IF cur = <<>> THEN acc ELSE Append(acc, cur))
      ELSE SplitLoop(Tail(text), Append(cur, Head(text)), acc)

\* str.split(): the maximal runs of non-whitespace characters, in order
Split(text) == SplitLoop(text, <<>>, <<>>)

RECURSIVE Join(_, _)
\* sep.join(parts)
Join(parts, sep) ==
  IF parts = <<>> THEN <<>>
  ELSE IF Len(parts) = 1 THEN Head(parts)
  ELSE Head(parts) \o sep \o Join(Tail(parts), sep)

RECURSIVE Flatten(_)
Flatten(lists) ==
  IF lists = <<>> THEN <<>> ELSE Head(lists) \o Flatten(Tail(lists))

RECURSIVE SumLen(_)
SumLen(ws) == IF ws = <<>> THEN 0 ELSE Len(Head(ws)) + SumLen(Tail(ws))

\* ---------------------------------------------------------------- chunk_text
RECURSIVE ChunkLoop(_, _, _, _, _)
ChunkLoop(words, max_length, chunks, current_chunk, current_length) ==
  IF words = <<>>
    THEN Append(chunks, Join(current_chunk, <<" ">>))
    ELSE LET word == Head(words) IN
      IF current_length + Len(word) <= max_length
        THEN ChunkLoop(Tail(words), max_length, chunks,
                       Append(current_chunk, word), current_length + Len(word))
        ELSE ChunkLoop(Tail(words), max_length,
                       Append(chunks, Join(current_chunk, <<" ">>)),
                       <<word>>, Len(word))

RECURSIVE ChunkLoopDropWord(_, _, _, _, _)
ChunkLoopDropWord(words, max_length, chunks, current_chunk, current_length) ==
  IF words = <<>>
    THEN Append(chunks, Join(current_chunk, <<" ">>))
    ELSE LET word == Head(words) IN
      IF current_length + Len(word) <= max_length
        THEN ChunkLoopDropWord(Tail(words), max_length, chunks,
                       Append(current_chunk, word), current_length + Len(word))
        ELSE ChunkLoopDropWord(Tail(words), max_length,
                       Append(chunks, Join(current_chunk, <<" ">>)),
                       <<>>, 0)

\* chunk_text with the overflowing word lost instead of opening the next chunk
chunk_text_dropword(text, max_length) ==
  ChunkLoopDropWord(Split(text), max_length, <<>>, <<>>, 0)

chunk_text(text, max_length) ==
  ChunkLoop(Split(text), max_length, <<>>, <<>>, 0)

\* ------------------------------------------------------------------ inputs
Titles == {"t1", "t2"}

\* texts placed around the chunk threshold
TextEmpty == <<>>
TextShort == <<"a", "a", " ", "b">>
TextAtLimit == Rep("a", ChunkThreshold)
TextOneChunk == Rep("a", ChunkThreshold - 1) \o <<" ">> \o <<"b">>
TextTwoChunks == Rep("a", ChunkThreshold) \o <<" ">> \o <<"b", "b">>
TextLongWord == Rep("a", ChunkThreshold + 2)

\* story_text of a post: absent, empty, short, oversized
InlineTexts == {NoneText, TextEmpty, TextShort, TextTwoChunks}

\* visible text of a fetched page
PageTexts ==
  {TextEmpty, TextShort, TextAtLimit, TextOneChunk, TextTwoChunks, TextLongWord}

\* a fetched page: an empty document, or markup with its visible strings
Pages ==
  {[markup |-> FALSE, strings |-> <<>>]}
    \cup {[markup |-> TRUE, strings |-> Split(t)] : t \in PageTexts}

\* what the comment search returns for an ask_hn post
CommentLists == {<<>>, << <<"f">>, <<"g">> >>}

\* texts the completion service answers with
Summaries == {<<"s1">>, <<"s2">>}

\* get_text_from_hn_post reads story_text only when the post has no url, so
\* posts with a url are listed with story_text absent
Posts ==
  [title : Titles, url : {"u"}, story_text : {NoneText}, ask : BOOLEAN]
    \cup [title : Titles, url : {None}, story_text : InlineTexts, ask : BOOLEAN]

\* get_hn_posts("story", 2) returns at most num_posts hits
PostLists == UNION {[1..n -> Posts] : n \in 0..num_posts}

\* literals of the program
BriefInstr == <<"\nPlease provide a brief summary.">>
FinalInstr == <<"\nPlease provide a concise final summary.">>
CommentsPrefix == <<" ", "C", "o", "m", "m", "e", "n", "t", "s", ":", " ">>
Preamble == <<"Here's your daily summary.\n\n">>
ParagraphBreak == <<"\n\n">>

\* ------------------------------------------------------------------- state
VARIABLES
  posts,              \* the list handed to map_title_summary
  idx,                \* position of the for loop over posts (1-based)
  pc,                 \* "extract", "summarize", "next", "curate", "done", "crashed"
  phase,              \* which summarize call of the post: "chunk", "final", "direct"
  content,            \* the post's extracted content, NoneText for None
  chunks,             \* chunk_text(content, 12000)
  chunk_summaries,
  sum_text,           \* arguments of the summarize call in progress
  sum_title,
  i,                  \* loop variable of summarize
  title_summary_map,  \* insertion-ordered dict: sequence of [title, summary]
  curate_pos,         \* position of curate's loop over the map
  podcast_script,
  \* history
  post_type,          \* what get_text_from_hn_post returned for post idx
  ended,              \* how the loop body of post idx ended: "recorded", "dropped"
  errorPosts,         \* posts the extractor marked "ERROR"
  failedFinal,        \* posts whose final pass over the chunk summaries failed
  recorded,           \* [post, summary] for every assignment into the map
  log,                \* finished summarize invocations of post idx
  attempts,           \* completion requests sent by the current invocation
  rl,                 \* rate-limit errors received by the current invocation
  lastSum,            \* how the last finished invocation of post idx went
  crash,              \* why the run aborted
  \* chunk_text on its own
  ct_text, ct_max, ct_pc, ct_chunks

\* what one iteration of the loop over posts works with
postVars ==
  <<phase, content, chunks, chunk_summaries, sum_text, sum_title, i,
    post_type, ended, log, attempts, rl, lastSum>>

pipeVars ==
  <<posts, idx, pc, title_summary_map, curate_pos, podcast_script,
    errorPosts, failedFinal, recorded, crash, postVars>>

ctVars == <<ct_text, ct_max, ct_pc, ct_chunks>>

vars == <<pipeVars, ctVars>>

NoSum == [attempts |-> 0, rl |-> 0, outcome |-> "none yet", result |-> NoneText]
NoCrash == [reason |-> "none", stage |-> "none"]

FreshPost ==
  /\ phase = "none"
  /\ content = NoneText
  /\ chunks = <<>>
  /\ chunk_summaries = <<>>
  /\ sum_text = <<>>
  /\ sum_title = None
  /\ i = 0
  /\ post_type = "none"
  /\ ended = "no"
  /\ log = <<>>
  /\ attempts = 0
  /\ rl = 0
  /\ lastSum = NoSum

PipeInit(ps) ==
  /\ posts = ps
  /\ idx = 1
  /\ pc = "extract"
  /\ title_summary_map = <<>>
  /\ curate_pos = 0
  /\ podcast_script = <<>>
  /\ errorPosts = {}
  /\ failedFinal = {}
  /\ recorded = <<>>
  /\ crash = NoCrash
  /\ FreshPost

CtInit(t, m) ==
  /\ ct_text = t
  /\ ct_max = m
  /\ ct_pc = "input"
  /\ ct_chunks = <<>>

Init ==
  /\ \E ps \in PostLists : PipeInit(ps)
  /\ CtInit(<<>>, 1)

\* --------------------------------------------------------------- extraction
\* outcomes of requests.get(url) and of the comment search
Responses ==
  {[ok |-> FALSE, markup |-> FALSE, strings |-> <<>>]}
    \cup {[ok |-> TRUE, markup |-> p.markup, strings |-> p.strings] : p \in Pages}

CommentResults ==
  {[ok |-> FALSE, hits |-> <<>>]} \cup {[ok |-> TRUE, hits |-> c] : c \in CommentLists}

Truthy(str) == str # None /\ str # ""

get_text_from_hn_post(post, resp) ==
  IF Truthy(post.url)
    THEN IF resp.ok
      THEN [type |-> "html", page |-> resp, text |-> NoneText]
      ELSE [type |-> "ERROR", page |-> resp, text |-> NoneText]
    ELSE [type |-> "text", page |-> resp, text |-> post.story_text]

\* None for an empty document, else the visible strings joined by spaces
extract_text(page) ==
  IF page.markup THEN Join(page.strings, <<" ">>) ELSE NoneText

\* lines 135-151 for one post: what the loop body has in hand when it
\* reaches the length test, or how it left before
Extraction(post, resp, cres) ==
  LET got == get_text_from_hn_post(post, resp)
      c0 == IF got.type = "html" THEN extract_text(got.page) ELSE got.text
  IN IF got.type = "ERROR"
       THEN [status |-> "ERROR", type |-> got.type, content |-> NoneText]
     ELSE IF post.ask
       THEN IF ~cres.ok
              THEN [status |-> "fetch_error", type |-> got.type, content |-> c0]
            ELSE IF c0 = NoneText
              THEN [status |-> "type_error", type |-> got.type, content |-> c0]
            ELSE [status |-> "ok", type |-> got.type,
                  content |-> c0 \o CommentsPrefix \o Join(cres.hits, <<" ">>)]
     ELSE IF c0 = NoneText
       THEN [status |-> "type_error", type |-> got.type, content |-> c0]
     ELSE [status |-> "ok", type |-> got.type, content |-> c0]

NeedsChunkingAtLimit(text) == Len(text) >= ChunkThreshold

\* len(content) > 12000
NeedsChunking(text) == Len(text) > ChunkThreshold

StartSummarize(text, title) ==
  /\ pc' = "summarize"
  /\ sum_text' = text
  /\ sum_title' = title
  /\ i' = 0
  /\ attempts' = 0
  /\ rl' = 0

Abort(reason, stage) ==
  /\ pc' = "crashed"
  /\ crash' = [reason |-> reason, stage |-> stage]

\* the post's article could not be fetched: "ERROR", continue
PostError ==
  /\ pc = "extract"
  /\ idx <= Len(posts)
  /\ \E resp \in Responses, cres \in CommentResults :
       Extraction(posts[idx], resp, cres).status = "ERROR"
  /\ idx' = idx + 1
  /\ errorPosts' = errorPosts \cup {idx}
  /\ UNCHANGED <<posts, pc, title_summary_map, curate_pos, podcast_script,
                 failedFinal, recorded, crash, postVars, ctVars>>

\* the comment search fails, or None reaches += or len(): the run aborts
PostAbort ==
  /\ pc = "extract"
  /\ idx <= Len(posts)
  /\ \E resp \in Responses, cres \in CommentResults :
       LET e == Extraction(posts[idx], resp, cres) IN
       /\ e.status \in {"fetch_error", "type_error"}
       /\ post_type' = e.type
       /\ content' = e.content
       /\ Abort(e.status, "extract")
  /\ UNCHANGED <<posts, idx, title_summary_map, curate_pos, podcast_script,
                 errorPosts, failedFinal, recorded, phase, chunks,
                 chunk_summaries, sum_text, sum_title, i, ended, log, attempts,
                 rl, lastSum, ctVars>>

\* content in hand: the first summarize call of the post begins
PostReady ==
  /\ pc = "extract"
  /\ idx <= Len(posts)
  /\ \E resp \in Responses, cres \in CommentResults :
       LET e == Extraction(posts[idx], resp, cres) IN
       /\ e.status = "ok"
       /\ post_type' = e.type
       /\ content' = e.content
       /\ IF NeedsChunking(e.content)
            THEN LET cs == chunk_text(e.content, ChunkThreshold) IN
                 /\ chunks' = cs
                 /\ phase' = "chunk"
                 /\ StartSummarize(cs[1] \o BriefInstr, None)
            ELSE /\ chunks' = <<>>
                 /\ phase' = "direct"
                 /\ StartSummarize(e.content, posts[idx].title)
  /\ UNCHANGED <<posts, idx, title_summary_map, curate_pos, podcast_script,
                 errorPosts, failedFinal, recorded, crash, chunk_summaries,
                 ended, log, lastSum, ctVars>>

\* ---------------------------------------------------------------- summarize
\* for i in range(max_retries): is there an iteration after iteration k
RangeHasNextOffByOne(k) == k + 1 <= max_retries

RangeHasNext(k) == k + 1 < max_retries

\* input of the final pass without the join
FinalInputFirstOnly(summaries) == Head(summaries) \o FinalInstr

\* full_summary_text + "\nPlease provide a concise final summary."
FinalInput(summaries) == Join(summaries, <<" ">>) \o FinalInstr

\* title_summary_map[title] = summary on an insertion-ordered dict
DictSet(map, title, summary) ==
  IF \E k \in 1..Len(map) : map[k].title = title
    THEN [k \in 1..Len(map) |->
            IF map[k].title = title
              THEN [title |-> title, summary |-> summary] ELSE map[k]]
    ELSE Append(map, [title |-> title, summary |-> summary])

HasKey(map, title) == \E k \in 1..Len(map) : map[k].title = title

Lookup(map, title) ==
  map[CHOOSE k \in 1..Len(map) : map[k].title = title].summary

\* summarize returned r to map_title_summary (lines 156-173)
Return(r) ==
  IF phase = "chunk"
    THEN LET cs == Append(chunk_summaries, r) IN
         /\ chunk_summaries' = cs
         /\ UNCHANGED <<title_summary_map, recorded, failedFinal, ended>>
         /\ IF Len(cs) < Len(chunks)
              THEN /\ StartSummarize(chunks[Len(cs) + 1] \o BriefInstr, None)
                   /\ UNCHANGED <<phase, crash>>
            ELSE IF \E k \in 1..Len(cs) : cs[k] = NoneText
              \* " ".join of a list holding None raises TypeError
              THEN /\ Abort("type_error", "join")
                   /\ UNCHANGED <<phase, sum_text, sum_title, i, attempts, rl>>
              ELSE /\ phase' = "final"
                   /\ StartSummarize(FinalInput(cs), posts[idx].title)
                   /\ UNCHANGED crash
    ELSE /\ title_summary_map' = DictSet(title_summary_map, posts[idx].title, r)
         /\ recorded' = Append(recorded, [post |-> idx, summary |-> r])
         /\ failedFinal' =
              IF phase = "final" /\ r = NoneText
                THEN failedFinal \cup {idx} ELSE failedFinal
         /\ ended' = "recorded"
         /\ pc' = "next"
         /\ UNCHANGED <<phase, chunk_summaries, sum_text, sum_title, i,
                        attempts, rl, crash>>

\* summarize raised an exception that is not a rate-limit error
Raise ==
  IF phase = "final"
    THEN /\ pc' = "next"
         /\ ended' = "dropped"
         /\ failedFinal' = failedFinal \cup {idx}
         /\ UNCHANGED <<phase, chunk_summaries, sum_text, sum_title, i,
                        attempts, rl, crash, title_summary_map, recorded>>
    ELSE /\ Abort("exception", phase)
         /\ UNCHANGED <<phase, chunk_summaries, sum_text, sum_title, i,
                        attempts, rl, title_summary_map, recorded, ended,
                        failedFinal>>

Finished(outcome, result, sent, limited) ==
  /\ lastSum' = [attempts |-> sent, rl |-> limited, outcome |-> outcome,
                 result |-> result]
  /\ log' = Append(log, [kind |-> phase, text |-> sum_text, title |-> sum_title,
                         outcome |-> outcome, result |-> result])

sumFrame ==
  <<posts, idx, content, chunks, curate_pos, podcast_script, post_type,
    errorPosts, ctVars>>

\* the completion request succeeds: its text is returned
CompletionOk ==
  /\ pc = "summarize"
  /\ \E s \in Summaries :
       /\ Finished("ok", s, attempts + 1, rl)
       /\ Return(s)
  /\ UNCHANGED sumFrame

\* RateLimitError with iterations left: sleep and try again
RateLimitRetry ==
  /\ pc = "summarize"
  /\ RangeHasNext(i)
  /\ i' = i + 1
  /\ attempts' = attempts + 1
  /\ rl' = rl + 1
  /\ UNCHANGED <<pc, phase, chunk_summaries, sum_text, sum_title,
                 title_summary_map, recorded, failedFinal, crash, lastSum, log,
                 ended>>
  /\ UNCHANGED sumFrame

\* RateLimitError in the last iteration: the loop ends, summarize returns None
RateLimitExhausted ==
  /\ pc = "summarize"
  /\ ~RangeHasNext(i)
  /\ Finished("none", NoneText, attempts + 1, rl + 1)
  /\ Return(NoneText)
  /\ UNCHANGED sumFrame

\* any other exception of the completion request leaves summarize
CompletionRaises ==
  /\ pc = "summarize"
  /\ Finished("raised", NoneText, attempts + 1, rl)
  /\ Raise
  /\ UNCHANGED sumFrame

\* the loop over posts moves on (after sleep(15), or by continue)
NextPost ==
  /\ pc = "next"
  /\ idx' = idx + 1
  /\ pc' = "extract"
  /\ phase' = "none"
  /\ content' = NoneText
  /\ chunks' = <<>>
  /\ chunk_summaries' = <<>>
  /\ sum_text' = <<>>
  /\ sum_title' = None
  /\ i' = 0
  /\ post_type' = "none"
  /\ ended' = "no"
  /\ log' = <<>>
  /\ attempts' = 0
  /\ rl' = 0
  /\ lastSum' = NoSum
  /\ UNCHANGED <<posts, title_summary_map, curate_pos, podcast_script,
                 errorPosts, failedFinal, recorded, crash, ctVars>>

\* --------------------------------------------------------------------- curate
\* an f-string renders None as the text None
Str(v) == IF v = NoneText THEN <<"None">> ELSE v

CurateAppendNoBreak(script, summary) == script \o Str(summary)

\* podcast_script += f"{title_summary_map[title]}\n\n"
CurateAppend(script, summary) == script \o Str(summary) \o ParagraphBreak

curateFrame ==
  <<posts, idx, title_summary_map, errorPosts, failedFinal, recorded, crash,
    postVars, ctVars>>

\* the loop over posts is over: the map is returned and curate begins
CurateBegin ==
  /\ pc = "extract"
  /\ idx > Len(posts)
  /\ pc' = "curate"
  /\ podcast_script' = Preamble
  /\ curate_pos' = 1
  /\ UNCHANGED curateFrame

CurateStep ==
  /\ pc = "curate"
  /\ curate_pos <= Len(title_summary_map)
  /\ podcast_script' =
       CurateAppend(podcast_script, title_summary_map[curate_pos].summary)
  /\ curate_pos' = curate_pos + 1
  /\ UNCHANGED pc
  /\ UNCHANGED curateFrame

CurateReturn ==
  /\ pc = "curate"
  /\ curate_pos > Len(title_summary_map)
  /\ pc' = "done"
  /\ UNCHANGED <<podcast_script, curate_pos>>
  /\ UNCHANGED curateFrame

Next ==
  \/ PostError
  \/ PostAbort
  \/ PostReady
  \/ CompletionOk
  \/ RateLimitRetry
  \/ RateLimitExhausted
  \/ CompletionRaises
  \/ NextPost
  \/ CurateBegin
  \/ CurateStep
  \/ CurateReturn

Spec == Init /\ [][Next]_vars

\* ------------------------------------------------------- chunk_text alone
Chars == {"a", "b", " "}
Texts == UNION {[1..n -> Chars] : n \in 0..MaxLen}

ChunkInit ==
  /\ PipeInit(<<>>)
  /\ \E t \in Texts, m \in 1..MaxThreshold : CtInit(t, m)

ChunkText ==
  /\ ct_pc = "input"
  /\ ct_chunks' = chunk_text(ct_text, ct_max)
  /\ ct_pc' = "done"
  /\ UNCHANGED <<ct_text, ct_max, pipeVars>>

ChunkNext == ChunkText

SpecChunk == ChunkInit /\ [][ChunkNext]_vars

\* ===================================================================== claims
PostInHand == pc \in {"summarize", "next"} \/ (pc = "crashed" /\ phase # "none")

\* C1: whenever the final summarization pass of a post fails (retries
\* exhausted, or another exception), no entry is recorded for the post and
\* the run goes on with the next post.
C1_FailedFinalDropsPost ==
  \A p \in failedFinal :
    /\ ~\E k \in 1..Len(recorded) : recorded[k].post = p
    /\ ~(pc = "crashed" /\ idx = p)

\* C2: one summarize invocation answered by n rate-limit errors (n <= 4) and
\* then a success sends exactly n + 1 completion requests and returns the
\* successful text; answered by 5 rate-limit errors it sends exactly 5, never
\* a sixth, and returns no result.
C2_RetryPolicy ==
  /\ attempts <= max_retries
  /\ lastSum.attempts <= max_retries
  /\ pc = "summarize" => (attempts = rl /\ rl < max_retries)
  /\ lastSum.outcome = "ok" =>
       /\ lastSum.rl <= max_retries - 1
       /\ lastSum.attempts = lastSum.rl + 1
       /\ lastSum.result \in Summaries
       /\ log[Len(log)].result = lastSum.result
       /\ (pc = "next" /\ ended = "recorded") =>
            recorded[Len(recorded)].summary = lastSum.result
  /\ lastSum.rl = max_retries <=>  lastSum.outcome = "none"
  /\ lastSum.outcome = "none" =>
       /\ lastSum.attempts = max_retries
       /\ lastSum.result = NoneText
       /\ log[Len(log)].result = NoneText

C2_Witness ==
  /\ Len(recorded) = 2
  /\ recorded[1].summary = NoneText
  /\ lastSum.outcome = "ok"
  /\ lastSum.rl = max_retries - 1
  /\ lastSum.attempts = max_retries

\* C3: the title of a post the extractor marked "ERROR" never is a key of the
\* title->summary map.
C3_ErrorTitleNeverKey ==
  \A p \in errorPosts : ~HasKey(title_summary_map, posts[p].title)

\* C4: the map holds one entry per summarized post, and the summary recorded
\* for an earlier post is never overwritten by a later post of the same title.
C4_OneEntryPerPost ==
  /\ Len(title_summary_map) = Len(recorded)
  /\ \A k \in 1..Len(recorded) :
       /\ HasKey(title_summary_map, posts[recorded[k].post].title)
       /\ Lookup(title_summary_map, posts[recorded[k].post].title)
            = recorded[k].summary

\* C5: no chunk's sum of word lengths exceeds the threshold, a word that
\* would overflow the current chunk opens the next one, and the number of
\* chunks is the least that accumulation in order allows.
Grouping(n, cuts) ==
  LET starts == {1} \cup {c + 1 : c \in cuts}
  IN {[from |-> a,
       to |-> IF \E c \in cuts : c >= a
                THEN CHOOSE c \in cuts : c >= a /\ \A d \in cuts : d >= a => c <= d
                ELSE n] : a \in starts}

Fits(words, max_length, cuts) ==
  \A g \in Grouping(Len(words), cuts) :
    SumLen(SubSeq(words, g.from, g.to)) <= max_length

LeastChunks(words, max_length) ==
  LET ok == {cuts \in SUBSET (1..(Len(words) - 1)) : Fits(words, max_length, cuts)}
  IN CHOOSE n \in 1..(Len(words) + 1) :
       /\ \E cuts \in ok : Cardinality(cuts) + 1 = n
       /\ \A cuts \in ok : Cardinality(cuts) + 1 >= n

C5_ChunksWithinThreshold ==
  ct_pc = "done" =>
    LET words == Split(ct_text) IN
    /\ \A k \in 1..Len(ct_chunks) : SumLen(Split(ct_chunks[k])) <= ct_max
    /\ \A k \in 2..Len(ct_chunks) :
         /\ Split(ct_chunks[k]) # <<>>
         /\ SumLen(Split(ct_chunks[k - 1])) + Len(Split(ct_chunks[k])[1]) > ct_max
    /\ Len(ct_chunks) = LeastChunks(words, ct_max)

\* C6: splitting every chunk back into words and concatenating the word
\* lists in chunk order gives the word sequence of the text.
C6_ChunkingLossless ==
  ct_pc = "done" =>
    Flatten([k \in 1..Len(ct_chunks) |-> Split(ct_chunks[k])]) = Split(ct_text)

C6_Witness ==
  /\ ct_pc = "done"
  /\ Len(ct_chunks) >= 2
  /\ Len(Split(ct_text)) >= 3
  /\ \E k \in 1..Len(ct_chunks) : Len(Split(ct_chunks[k])) >= 2

\* the post at the loop position has content at or under the threshold
ShortPostInHand == PostInHand /\ content # NoneText /\ Len(content) <= ChunkThreshold

\* C7 as stated: a post whose extracted text is at or under the threshold is
\* summarized directly, without chunking, with exactly one completion call.
C7_ExactlyOneCompletionCall ==
  ShortPostInHand =>
    /\ phase = "direct"
    /\ chunks = <<>>
    /\ attempts <= 1
    /\ pc # "summarize" => (Len(log) = 1 /\ lastSum.attempts = 1)

\* C7 (amended): a post whose extracted text is at or under the threshold is
\* summarized directly, without chunking, by exactly one summarize invocation
\* on the content with the title hint; that invocation sends one completion
\* request plus one for every rate-limit error it retries, at most 5 in all.
C7_OneDirectInvocation ==
  ShortPostInHand =>
    /\ phase = "direct"
    /\ chunks = <<>>
    /\ chunk_summaries = <<>>
    /\ pc = "summarize" =>
         /\ log = <<>>
         /\ sum_text = content
         /\ sum_title = posts[idx].title
         /\ attempts = rl
         /\ attempts < max_retries
    /\ pc # "summarize" =>
         /\ Len(log) = 1
         /\ log[1].kind = "direct"
         /\ log[1].text = content
         /\ log[1].title = posts[idx].title
         /\ lastSum.attempts \in 1..max_retries
         /\ lastSum.attempts =
              IF lastSum.outcome = "none" THEN lastSum.rl ELSE lastSum.rl + 1
         /\ lastSum.rl = 0 => lastSum.attempts = 1

C7_Witness ==
  /\ pc = "next"
  /\ ended = "recorded"
  /\ Len(content) = ChunkThreshold
  /\ phase = "direct"
  /\ lastSum.outcome = "ok"
  /\ lastSum.attempts = 3

\* C8: a post over the threshold that splits into k chunks has each chunk
\* summarized in chunk order without the title hint; only when all k chunk
\* summaries exist is one final summarization made, on the chunk summaries
\* joined in order by single spaces with the post's title as hint; the
\* summary recorded for the post is the result of that final call.
ChunkResults == [k \in 1..Len(chunks) |-> log[k].result]

C8_TwoStageSummary ==
  (PostInHand /\ content # NoneText /\ Len(content) > ChunkThreshold) =>
    LET k == Len(chunks) IN
    /\ phase \in {"chunk", "final"}
    /\ k >= 1
    /\ Flatten([j \in 1..k |-> Split(chunks[j])]) = Split(content)
    /\ Len(log) <= k + 1
    /\ \A j \in 1..Len(log) :
         j <= k => /\ log[j].kind = "chunk"
                   /\ log[j].text = chunks[j] \o BriefInstr
                   /\ log[j].title = None
    /\ (pc = "summarize" /\ phase = "chunk") =>
         /\ Len(log) < k
         /\ sum_text = chunks[Len(log) + 1] \o BriefInstr
         /\ sum_title = None
    /\ phase = "final" =>
         /\ Len(log) >= k
         /\ \A j \in 1..k : log[j].outcome = "ok"
         /\ chunk_summaries = ChunkResults
         /\ sum_text = Join(ChunkResults, <<" ">>) \o FinalInstr
         /\ sum_title = posts[idx].title
         /\ pc = "summarize" <=> Len(log) = k
    /\ Len(log) = k + 1 =>
         /\ phase = "final"
         /\ log[k + 1].kind = "final"
         /\ log[k + 1].text = Join(ChunkResults, <<" ">>) \o FinalInstr
         /\ log[k + 1].title = posts[idx].title
    /\ (pc = "next" /\ ended = "recorded") =>
         /\ Len(log) = k + 1
         /\ recorded[Len(recorded)] = [post |-> idx, summary |-> log[k + 1].result]
         /\ Lookup(title_summary_map, posts[idx].title) = log[k + 1].result

C8_Witness ==
  /\ pc = "next"
  /\ ended = "recorded"
  /\ phase = "final"
  /\ Len(chunks) = 2
  /\ log[1].result # log[2].result
  /\ log[3].result \in Summaries

\* C9: the script curate returns is the preamble followed by the summary of
\* each entry of the map, each followed by a paragraph break, in the order
\* the posts were fetched, none reordered, left out or merged; with no
\* summaries the script is exactly the preamble.
FirstPostOf(title) ==
  CHOOSE p \in 1..Len(posts) :
    /\ posts[p].title = title
    /\ \E k \in 1..Len(recorded) : recorded[k].post = p
    /\ \A q \in 1..(p - 1) :
         ~(posts[q].title = title /\ \E k \in 1..Len(recorded) : recorded[k].post = q)

Paragraphs(n) ==
  Flatten([k \in 1..n |-> Str(title_summary_map[k].summary) \o ParagraphBreak])

C9_ScriptIsPreamblePlusSummaries ==
  /\ pc = "curate" => podcast_script = Preamble \o Paragraphs(curate_pos - 1)
  /\ pc = "done" =>
       /\ podcast_script = Preamble \o Paragraphs(Len(title_summary_map))
       /\ title_summary_map = <<>> => podcast_script = Preamble
       /\ \A a, b \in 1..Len(title_summary_map) :
            a < b => FirstPostOf(title_summary_map[a].title)
                       < FirstPostOf(title_summary_map[b].title)

C9_Witness ==
  /\ pc = "done"
  /\ Len(title_summary_map) = 2
  /\ title_summary_map[1].summary = <<"s2">>
  /\ title_summary_map[2].summary = <<"s1">>

\* C10: a post without url is never marked "ERROR"; its content is its own
\* inline text, the empty string when that text is empty or absent, and the
\* run does not abort on it before its summarization is attempted.
InlineTextOf(post) ==
  IF post.story_text = NoneText THEN <<>> ELSE post.story_text

C10_NoUrlPostNeverFails ==
  /\ \A p \in errorPosts : Truthy(posts[p].url)
  /\ (idx \in 1..Len(posts) /\ post_type # "none" /\ ~Truthy(posts[idx].url)) =>
       /\ post_type = "text"
       /\ ~(pc = "crashed" /\ crash = [reason |-> "type_error", stage |-> "extract"])
       /\ SubSeq(content, 1, Len(InlineTextOf(posts[idx]))) = InlineTextOf(posts[idx])
       /\ ~posts[idx].ask => content = InlineTextOf(posts[idx])

====
